---- MODULE Spec2Model ----
(***************************************************************************)
(* Model of the TeamDetails view                                           *)
(* (src/sentry/static/sentry/app/views/teamsDashboard/teamDetails).        *)
(*                                                                         *)
(* Strings are sequences of symbols.  A symbol is a short piece of text    *)
(* that the code never looks inside ("team", "goals"), or one of the       *)
(* separators the code does look at ("/", "_", "-", " ", "%s").  All       *)
(* string operations (split, concatenation, comparison, substitution) are  *)
(* computed on these sequences.                                            *)
(***************************************************************************)
EXTENDS Integers, Sequences, FiniteSets, TLC

VARIABLES props, state, requests, inflight, linkedReq, lifecycle, uncaught, lastOp

vars == <<props, state, requests, inflight, linkedReq, lifecycle, uncaught, lastOp>>

(***************************************************************************)
(* Bounds                                                                  *)
(***************************************************************************)
\* number of fetchUnlinkedProjects calls in one run (mount-time call included)
MaxRequests == 3
\* number of segments of a generated pathname
MaxSegs == 3
\* length of the organization.access array
MaxAccessLen == 2

(***************************************************************************)
(* String helpers                                                          *)
(***************************************************************************)
\* JavaScript's undefined, as the result of an out-of-range array read
Undefined == <<"undefined">>

RECURSIVE split(_, _)
\* String.prototype.split with a one-symbol separator
split(str, sep) ==
  IF \A i \in 1..Len(str) : str[i] # sep
  THEN <<str>>
  ELSE LET i == CHOOSE k \in 1..Len(str) :
                  str[k] = sep /\ \A j \in 1..(k - 1) : str[j] # sep
       IN  <<SubSeq(str, 1, i - 1)>> \o split(SubSeq(str, i + 1, Len(str)), sep)

\* arr[i] with a zero-based index; undefined outside the array
at(arr, i) == IF i >= 0 /\ i < Len(arr) THEN arr[i + 1] ELSE Undefined

RECURSIVE join(_, _)
\* Array.prototype.join
join(arr, sep) ==
  IF Len(arr) = 0 THEN <<>>
  ELSE IF Len(arr) = 1 THEN arr[1]
  ELSE arr[1] \o <<sep>> \o join(Tail(arr), sep)

\* str.endsWith(suffix)
endsWith(str, suffix) ==
  /\ Len(suffix) <= Len(str)
  /\ SubSeq(str, Len(str) - Len(suffix) + 1, Len(str)) = suffix

\* str.includes(part)
includes(str, part) ==
  \E i \in 0..(Len(str) - Len(part)) : SubSeq(str, i + 1, i + Len(part)) = part

RECURSIVE format(_, _)
\* t(template, arg): every %s of the template is replaced by arg
format(template, arg) ==
  IF template = <<>> THEN <<>>
  ELSE (IF Head(template) = "%s" THEN arg ELSE <<Head(template)>>)
         \o format(Tail(template), arg)

\* all sequences over S of length at most n
SeqsUpTo(S, n) == UNION {[1..k -> S] : k \in 0..n}

(***************************************************************************)
(* enum TAB                                                                *)
(***************************************************************************)
TAB == [TEAM_FEED  |-> <<"team", "_", "feed">>,
        TEAM_GOALS |-> <<"team", "_", "goals">>,
        PROJECTS   |-> <<"projects">>,
        MEMBERS    |-> <<"members">>,
        SETTINGS   |-> <<"settings">>]

TABS == {TAB.TEAM_FEED, TAB.TEAM_GOALS, TAB.PROJECTS, TAB.MEMBERS, TAB.SETTINGS}

\* the `to` of each ListLink, after baseTabUrl, with the tab its onClick sets
LINKS == << [to |-> <<"team", "-", "feed", "/">>,  tab |-> TAB.TEAM_FEED],
            [to |-> <<"team", "-", "goals", "/">>, tab |-> TAB.TEAM_GOALS],
            [to |-> <<"projects", "/">>,           tab |-> TAB.PROJECTS],
            [to |-> <<"members", "/">>,            tab |-> TAB.MEMBERS],
            [to |-> <<"settings", "/">>,           tab |-> TAB.SETTINGS] >>

(***************************************************************************)
(* The world outside the component: routes, organization, server           *)
(***************************************************************************)
\* absent team (withTeam found no team of that slug)
NoTeam == [slug |-> Undefined, members |-> <<>>]

TeamSlugs == {<<"ops">>, <<"dev">>}

\* the record withTeam passes for a team that exists
TeamOf(slug) == [slug |-> slug, members |-> <<"ann", "bob">>]

\* recreateRoute('', {stepBack: -2}): the route two steps up
BaseUrls == {<<"/", "teams", "/", "all", "-", "teams", "/">>,
             <<"/", "teams", "/", "my", "-", "teams", "/">>}

\* the pieces generated pathnames are joined from ("" is the empty piece, so
\* leading, trailing and doubled slashes are generated too)
PathPieces ==
  {<<>>, <<"ops">>, <<"unknown">>, <<"projects">>, <<"settings">>,
   <<"team", "_", "goals">>, <<"team", "-", "goals">>}

\* every pathname of at most MaxSegs pieces
Pathnames == {join(a, "/") : a \in SeqsUpTo(PathPieces, MaxSegs)}

\* the scopes an organization.access array is drawn from
AccessScopes == {"org:write", "team:admin", "org:read", "team:write"}

\* every organization.access of at most MaxAccessLen scopes
AccessArrays == SeqsUpTo(AccessScopes, MaxAccessLen)

\* the projects the server knows, with the team each belongs to
ServerProjects == << [slug |-> <<"a", "p", "i">>, team |-> <<"ops">>],
                     [slug |-> <<"a", "p", "p">>, team |-> <<"dev">>],
                     [slug |-> <<"w", "e", "b">>, team |-> <<"none">>] >>

\* the slugs of a list of project records
Slugs(ps) == [i \in 1..Len(ps) |-> ps[i].slug]

\* GET /organizations/{org}/projects/?query=...: the server parses the query
\* ("team:x" or "!team:x", then an optional free-text filter after a space)
ServerSearch(query) ==
  LET parts  == split(query, " ")
      first  == parts[1]
      negate == Len(first) > 0 /\ Head(first) = "!team:"
      slug   == IF Len(first) > 0 THEN Tail(first) ELSE <<>>
      filter == IF Len(parts) > 1 THEN parts[2] ELSE <<>>
      hit(p) == /\ (IF negate THEN p.team # slug ELSE p.team = slug)
                /\ includes(p.slug, filter)
  IN  Slugs(SelectSeq(ServerProjects, hit))

\* the free-text filters the projects view passes to onQueryUpdate
Queries == {<<>>, <<"a", "p">>, <<"w">>}

(***************************************************************************)
(* class TeamDetails: the pure parts                                       *)
(***************************************************************************)
\* getDefaultState(): the component's state after construction
\* (loading comes from super.getDefaultState())
getDefaultState ==
  [loading          |-> TRUE,
   error            |-> FALSE,
   searchTerm       |-> <<>>,
   projectsPageLinks |-> <<>>,
   currentTab       |-> TAB.TEAM_FEED,
   projects         |-> <<>>,
   unlinkedProjects |-> <<>>]

\* getCurrentTab() without its default branch: an unmatched piece is taken as
\* the tab
getCurrentTabNoDefault(location) ==
  LET pathnameEnd == split(location, "/")
      pathname    == at(pathnameEnd, Len(pathnameEnd) - 2)
  IN  pathname

\* getCurrentTab(): the tab named by the second-to-last piece of the pathname
getCurrentTab(location) ==
  LET pathnameEnd == split(location, "/")
      pathname    == at(pathnameEnd, Len(pathnameEnd) - 2)
  IN  CASE pathname = TAB.TEAM_GOALS -> TAB.TEAM_GOALS
        [] pathname = TAB.PROJECTS   -> TAB.PROJECTS
        [] pathname = TAB.MEMBERS    -> TAB.MEMBERS
        [] pathname = TAB.SETTINGS   -> TAB.SETTINGS
        [] OTHER                     -> TAB.TEAM_FEED

\* the query of getEndpoints(): `team:${teamSlug}`
linkedQuery(teamSlug) == <<"team:">> \o teamSlug

\* the query of fetchUnlinkedProjects(query):
\* query ? `!team:${teamSlug} ${query}` : `!team:${teamSlug}`
unlinkedQuery(teamSlug, query) ==
  IF query # Undefined /\ query # <<>>
  THEN <<"!team:">> \o teamSlug \o <<" ">> \o query
  ELSE <<"!team:">> \o teamSlug

\* new Set(organization.access)
accessSet(organization) == {organization[i] : i \in 1..Len(organization)}

\* canWrite from 'org:write' alone
canWriteOrgOnly(organization) == "org:write" \in accessSet(organization)

\* access.has('org:write') || access.has('team:admin')
canWrite(organization) ==
  LET access == accessSet(organization)
  IN  "org:write" \in access \/ "team:admin" \in access

\* renderTabContent(): the view of the current tab
renderTabContent(st, pr) ==
  CASE st.currentTab = TAB.TEAM_FEED ->
         [view |-> "Feed", projects |-> st.projects]
    [] st.currentTab = TAB.TEAM_GOALS ->
         [view |-> "div", text |-> <<"Team Goals">>]
    [] st.currentTab = TAB.PROJECTS ->
         [view             |-> "Projects",
          projects         |-> st.projects,
          unlinkedProjects |-> st.unlinkedProjects,
          canWrite         |-> canWrite(pr.access),
          teamSlug         |-> pr.team.slug,
          pageLinks        |-> st.projectsPageLinks]
    [] st.currentTab = TAB.MEMBERS ->
         [view     |-> "Members",
          teamSlug |-> pr.team.slug,
          canWrite |-> canWrite(pr.access),
          members  |-> pr.team.members]
    [] st.currentTab = TAB.SETTINGS ->
         [view |-> "div", text |-> <<"Settings">>]
    [] OTHER -> [view |-> "null"]

\* the response stored under the wrong state key
setUnlinkedProjectsWrongKey(st, unlinkedProjects) ==
  [st EXCEPT !.projects = unlinkedProjects]

\* this.setState({unlinkedProjects})
setUnlinkedProjects(st, unlinkedProjects) ==
  [st EXCEPT !.unlinkedProjects = unlinkedProjects]

\* AsyncComponent on a resolved endpoint: the data under its state key
setEndpointData(st, projects) ==
  [st EXCEPT !.projects = projects, !.loading = FALSE]

\* AsyncComponent on a rejected endpoint
setEndpointError(st) ==
  [st EXCEPT !.error = TRUE, !.loading = FALSE]

\* `${baseUrl}${teamSlug}/`
baseTabUrl(pr) == pr.baseUrl \o pr.teamSlug \o <<"/">>

\* renderContent() testing the team before isLoading
renderContentTeamFirst(st, pr) ==
  IF pr.team = NoTeam
  THEN [kind |-> "EmptyStateWarning",
        text |-> format(<<"Team '", "%s", "' was not found">>, pr.teamSlug)]
  ELSE IF pr.isLoading
  THEN [kind |-> "LoadingIndicator"]
  ELSE [kind |-> "PageContent", tabContent |-> renderTabContent(st, pr)]

\* renderContent(): what render() puts on the page
renderContent(st, pr) ==
  IF pr.isLoading
  THEN [kind |-> "LoadingIndicator"]
  ELSE IF pr.team = NoTeam
  THEN [kind |-> "EmptyStateWarning",
        text |-> format(<<"Team '", "%s", "' was not found">>, pr.teamSlug)]
  ELSE [kind       |-> "PageContent",
        origin     |-> IF endsWith(pr.baseUrl, <<"all", "-", "teams", "/">>)
                       THEN "all-teams" ELSE "my-teams",
        links      |-> [i \in 1..Len(LINKS) |->
                          [to       |-> baseTabUrl(pr) \o LINKS[i].to,
                           isActive |-> st.currentTab = LINKS[i].tab]],
        badges     |-> <<Len(st.projects), Len(pr.team.members)>>,
        tabContent |-> renderTabContent(st, pr)]

(***************************************************************************)
(* State                                                                   *)
(*   props      this.props: location.pathname, params.teamSlug, the route  *)
(*              base, organization.access, team, isLoading                 *)
(*   state      this.state                                                 *)
(*   requests   the query of every fetchUnlinkedProjects call, in order    *)
(*   inflight   the calls (indices of requests) still awaiting a response  *)
(*   linkedReq  the request of getEndpoints(): idle, pending, resolved or  *)
(*              rejected                                                   *)
(*   lifecycle  constructed, willMount (first render done), mounted        *)
(*   uncaught   an exception has escaped a handler                         *)
(*   lastOp     the operation that produced this state (history)           *)
(***************************************************************************)
\* the paths the router can mount the view under, after baseTabUrl
MountTails ==
  {<<>>, <<"unknown", "/">>, <<"projects">>,
   <<"team", "_", "goals", "/">>, <<"team", "_", "feed", "/">>}
    \cup {LINKS[i].to : i \in 1..Len(LINKS)}

\* organization.access of the organization the view is mounted for in the
\* runs of Spec (MountSpec draws it from AccessArrays)
MountAccess == {<<"org:read", "team:admin">>}

Op(name, arg) == [op |-> name, arg |-> arg]

\* the route the view is reached through in the runs of Spec
MountBaseUrl == <<"/", "teams", "/", "my", "-", "teams", "/">>

\* the component as constructed, whatever its props
Constructed ==
  /\ state = getDefaultState
  /\ requests = <<>>
  /\ inflight = {}
  /\ linkedReq = "idle"
  /\ lifecycle = "constructed"
  /\ uncaught = FALSE
  /\ lastOp = Op("constructor", <<>>)

Init ==
  /\ \E teamSlug \in TeamSlugs, tail \in MountTails,
        access \in MountAccess, isLoading \in BOOLEAN :
       \E team \in (IF isLoading THEN {NoTeam} ELSE {NoTeam, TeamOf(teamSlug)}) :
         props = [pathname  |-> MountBaseUrl \o teamSlug \o <<"/">> \o tail,
                  teamSlug  |-> teamSlug,
                  baseUrl   |-> MountBaseUrl,
                  access    |-> access,
                  team      |-> team,
                  isLoading |-> isLoading]
  /\ Constructed

\* mounted with the team loaded, under any pathname, or for any organization
MountInit ==
  /\ \E teamSlug \in TeamSlugs, baseUrl \in BaseUrls :
       \/ \E pathname \in Pathnames :
            props = [pathname  |-> pathname,
                     teamSlug  |-> teamSlug,
                     baseUrl   |-> baseUrl,
                     access    |-> <<>>,
                     team      |-> TeamOf(teamSlug),
                     isLoading |-> FALSE]
       \/ \E access \in AccessArrays :
            props = [pathname  |-> baseUrl \o teamSlug \o <<"/">>,
                     teamSlug  |-> teamSlug,
                     baseUrl   |-> baseUrl,
                     access    |-> access,
                     team      |-> TeamOf(teamSlug),
                     isLoading |-> FALSE]
  /\ Constructed

\* AsyncComponent's mount-time load of getEndpoints(): the linked projects
fetchData ==
  /\ lifecycle = "constructed"
  /\ lifecycle' = "willMount"
  /\ linkedReq' = "pending"
  /\ lastOp' = Op("fetchData", <<>>)
  /\ UNCHANGED <<props, state, requests, inflight, uncaught>>

\* componentDidMount(): this.getCurrentTab(); this.fetchUnlinkedProjects()
componentDidMount ==
  /\ lifecycle = "willMount"
  /\ lifecycle' = "mounted"
  /\ state' = [state EXCEPT !.currentTab = getCurrentTab(props.pathname)]
  /\ requests' = Append(requests, unlinkedQuery(props.teamSlug, Undefined))
  /\ inflight' = inflight \cup {Len(requests) + 1}
  /\ lastOp' = Op("componentDidMount", <<>>)
  /\ UNCHANGED <<props, linkedReq, uncaught>>

\* the settings link with the members link's onClick
onClickCopyPaste(i) ==
  /\ lifecycle = "mounted"
  /\ renderContent(state, props).kind = "PageContent"
  /\ state' = [state EXCEPT !.currentTab = LINKS[IF i = 5 THEN 4 ELSE i].tab]
  /\ props' = [props EXCEPT !.pathname = baseTabUrl(props) \o LINKS[i].to]
  /\ lastOp' = Op("onClick", i)
  /\ UNCHANGED <<requests, inflight, linkedReq, lifecycle, uncaught>>

\* a click on the i-th ListLink: its onClick, then the navigation to its `to`
onClick(i) ==
  /\ lifecycle = "mounted"
  /\ renderContent(state, props).kind = "PageContent"
  /\ state' = [state EXCEPT !.currentTab = LINKS[i].tab]
  /\ props' = [props EXCEPT !.pathname = baseTabUrl(props) \o LINKS[i].to]
  /\ lastOp' = Op("onClick", i)
  /\ UNCHANGED <<requests, inflight, linkedReq, lifecycle, uncaught>>

\* onQueryUpdate of the projects view: fetchUnlinkedProjects(query), up to
\* its await
onQueryUpdate(query) ==
  /\ lifecycle = "mounted"
  /\ renderContent(state, props).kind = "PageContent"
  /\ renderContent(state, props).tabContent.view = "Projects"
  /\ Len(requests) < MaxRequests
  /\ requests' = Append(requests, unlinkedQuery(props.teamSlug, query))
  /\ inflight' = inflight \cup {Len(requests) + 1}
  /\ lastOp' = Op("onQueryUpdate", Len(requests) + 1)
  /\ UNCHANGED <<props, state, linkedReq, lifecycle, uncaught>>

\* a resolved response dropped unless it answers the latest call
resolveUnlinkedLatestOnly(id) ==
  /\ id \in inflight
  /\ inflight' = inflight \ {id}
  /\ state' = IF id = Len(requests)
              THEN [state EXCEPT !.unlinkedProjects = ServerSearch(requests[id])]
              ELSE state
  /\ lastOp' = Op("resolveUnlinked", id)
  /\ UNCHANGED <<props, requests, linkedReq, lifecycle, uncaught>>

\* fetchUnlinkedProjects after its await, the request resolved:
\* this.setState({unlinkedProjects})
resolveUnlinked(id) ==
  /\ id \in inflight
  /\ inflight' = inflight \ {id}
  /\ state' = setUnlinkedProjects(state, ServerSearch(requests[id]))
  /\ lastOp' = Op("resolveUnlinked", id)
  /\ UNCHANGED <<props, requests, linkedReq, lifecycle, uncaught>>

\* a catch block that clears the list
rejectUnlinkedResets(id) ==
  /\ id \in inflight
  /\ inflight' = inflight \ {id}
  /\ state' = [state EXCEPT !.unlinkedProjects = <<>>]
  /\ lastOp' = Op("rejectUnlinked", id)
  /\ UNCHANGED <<props, requests, linkedReq, lifecycle, uncaught>>

\* fetchUnlinkedProjects after its await, the request rejected: catch {}
rejectUnlinked(id) ==
  /\ id \in inflight
  /\ inflight' = inflight \ {id}
  /\ lastOp' = Op("rejectUnlinked", id)
  /\ UNCHANGED <<props, state, requests, linkedReq, lifecycle, uncaught>>

\* the request of getEndpoints() resolved: AsyncComponent stores the data
\* under the endpoint's state key, 'projects'
resolveLinked ==
  /\ linkedReq = "pending"
  /\ linkedReq' = "resolved"
  /\ state' = setEndpointData(state, ServerSearch(linkedQuery(props.teamSlug)))
  /\ lastOp' = Op("resolveLinked", <<>>)
  /\ UNCHANGED <<props, requests, inflight, lifecycle, uncaught>>

\* the request of getEndpoints() rejected: AsyncComponent records the error
rejectLinked ==
  /\ linkedReq = "pending"
  /\ linkedReq' = "rejected"
  /\ state' = setEndpointError(state)
  /\ lastOp' = Op("rejectLinked", <<>>)
  /\ UNCHANGED <<props, requests, inflight, lifecycle, uncaught>>

\* withTeam passes new props: the team store has loaded
receiveProps(team) ==
  /\ props.isLoading
  /\ props' = [props EXCEPT !.isLoading = FALSE, !.team = team]
  /\ lastOp' = Op("receiveProps", <<>>)
  /\ UNCHANGED <<state, requests, inflight, linkedReq, lifecycle, uncaught>>

Next ==
  \/ fetchData
  \/ componentDidMount
  \/ \E i \in 1..Len(LINKS) : onClick(i)
  \/ \E query \in Queries : onQueryUpdate(query)
  \/ \E id \in inflight : resolveUnlinked(id)
  \/ \E id \in inflight : rejectUnlinked(id)
  \/ resolveLinked
  \/ rejectLinked
  \/ \E team \in {NoTeam, TeamOf(props.teamSlug)} : receiveProps(team)

Spec == Init /\ [][Next]_vars

\* the view mounted under any pathname and organization: the mount-time
\* requests and the tab links, without the projects view's query updates
MountNext ==
  \/ fetchData
  \/ componentDidMount
  \/ \E i \in 1..Len(LINKS) : onClick(i)
  \/ \E id \in inflight : resolveUnlinked(id)
  \/ \E id \in inflight : rejectUnlinked(id)
  \/ resolveLinked
  \/ rejectLinked

MountSpec == MountInit /\ [][MountNext]_vars

(***************************************************************************)
(* Properties                                                              *)
(***************************************************************************)
\* what render() shows in the current state
Rendered == renderContent(state, props)

\* the step just taken was operation `name`
Did(name) == lastOp.op = name

\* The piece between the last two slashes of a pathname (or before the last
\* slash, when there is only one), stated without split: seg is the
\* second-to-last piece of p
SecondToLast(p, seg) ==
  \E j \in 1..Len(p) :
    /\ p[j] = "/"
    /\ \A k \in (j + 1)..Len(p) : p[k] # "/"
    /\ \E i \in 0..(j - 1) :
         /\ i = 0 \/ p[i] = "/"
         /\ \A k \in (i + 1)..(j - 1) : p[k] # "/"
         /\ seg = SubSeq(p, i + 1, j - 1)

\* C1: right after mount, a pathname ending in /team-goals/ gives the goals
\* tab, one ending in /projects/ the projects tab, and one ending in
\* /unknown/ the feed tab.
C1_DocumentedPaths ==
  Did("componentDidMount") =>
    /\ endsWith(props.pathname, <<"/", "team", "-", "goals", "/">>)
         => state.currentTab = TAB.TEAM_GOALS
    /\ endsWith(props.pathname, <<"/", "projects", "/">>)
         => state.currentTab = TAB.PROJECTS
    /\ endsWith(props.pathname, <<"/", "unknown", "/">>)
         => state.currentTab = TAB.TEAM_FEED

\* C2: the current tab is one of the five tabs in every state (default,
\* mounted under any pathname, after any clicks and fetch completions or
\* failures), and right after mount it is the feed tab whenever the
\* second-to-last piece of the pathname is not the name of a tab.
C2_TabInEnum ==
  /\ state.currentTab \in TABS
  /\ Cardinality(TABS) = 5
  /\ Did("componentDidMount") /\ (\A tab \in TABS : ~SecondToLast(props.pathname, tab))
       => state.currentTab = TAB.TEAM_FEED

\* C2 witness: mounted under a pathname whose second-to-last piece is no tab
\* name, then both mount-time requests completed, one of them failing
C2_Witness ==
  /\ lifecycle = "mounted"
  /\ SecondToLast(props.pathname, <<"unknown">>)
  /\ state.currentTab = TAB.TEAM_FEED
  /\ linkedReq = "rejected"
  /\ inflight = {}
  /\ state.unlinkedProjects # <<>>

\* C3: a rejected fetchUnlinkedProjects leaves the whole component state as
\* it was (the unlinked projects are not reset, the current tab and the
\* linked projects do not change) and no exception escapes, for the
\* mount-time call and for every later call.
C3_RejectKeepsState ==
  [][Did("rejectUnlinked")' =>
       /\ state' = state
       /\ state'.unlinkedProjects = state.unlinkedProjects
       /\ ~uncaught'
       /\ linkedReq' = linkedReq]_vars

\* C3 witness: a call made through onQueryUpdate was rejected while the list
\* of an earlier response was in the state, and the list is still there
C3_Witness ==
  /\ Did("rejectUnlinked")
  /\ lastOp.arg > 1
  /\ state.unlinkedProjects # <<>>
  /\ ~uncaught

\* C4: a click on a tab link is possible whenever the links are shown,
\* whatever the state of the two fetches, and sets the current tab to the
\* link's tab in that step, changing nothing else of the state.
C4_ClickSetsTab ==
  /\ [](lifecycle = "mounted" /\ Rendered.kind = "PageContent"
          => \A i \in 1..Len(LINKS) : ENABLED onClick(i))
  /\ [][\A i \in 1..Len(LINKS) :
          (Did("onClick")' /\ lastOp'.arg = i) =>
            /\ state'.currentTab = LINKS[i].tab
            /\ Rendered'.links[i].isActive
            /\ state' = [state EXCEPT !.currentTab = LINKS[i].tab]
            /\ requests' = requests
            /\ inflight' = inflight
            /\ linkedReq' = linkedReq]_vars

\* C4 witness: the settings link clicked with the linked-projects fetch
\* rejected and an unlinked-projects fetch pending
C4_Witness ==
  /\ Did("onClick")
  /\ state.currentTab = TAB.SETTINGS
  /\ linkedReq = "rejected"
  /\ inflight # {}

\* C5: while isLoading, render() shows the loading indicator and nothing
\* else; with loading complete and no team it shows the empty-state message
\* naming the requested team slug; tab content is shown only with loading
\* complete and the team present.
C5_RenderGates ==
  /\ props.isLoading => Rendered = [kind |-> "LoadingIndicator"]
  /\ ~props.isLoading /\ props.team = NoTeam =>
       /\ Rendered.kind = "EmptyStateWarning"
       /\ includes(Rendered.text, props.teamSlug)
       /\ DOMAIN Rendered = {"kind", "text"}
  /\ "tabContent" \in DOMAIN Rendered => ~props.isLoading /\ props.team # NoTeam

\* C5 witness: the team store finished loading without the team, on a tab
\* other than the default one
C5_Witness ==
  /\ Did("receiveProps")
  /\ props.team = NoTeam
  /\ state.currentTab = TAB.PROJECTS
  /\ Rendered.kind = "EmptyStateWarning"

\* C6: the canWrite passed to the projects view and to the members view is
\* true exactly when organization.access holds "org:write" or "team:admin".
C6_CanWrite ==
  \A tab \in {TAB.PROJECTS, TAB.MEMBERS} :
    LET content == renderTabContent([state EXCEPT !.currentTab = tab], props)
    IN  content.canWrite <=>
          \E i \in 1..Len(props.access) :
            props.access[i] \in {"org:write", "team:admin"}

\* C6 witness: the projects view shown with write capability from
\* "team:admin" alone
C6_Witness ==
  /\ Rendered.kind = "PageContent"
  /\ Rendered.tabContent.view = "Projects"
  /\ Rendered.tabContent.canWrite
  /\ \A i \in 1..Len(props.access) : props.access[i] # "org:write"

\* the response of the linked-projects request
LinkedData == ServerSearch(linkedQuery(props.teamSlug))

\* C7: a completion of the linked-projects fetch leaves unlinkedProjects and
\* the current tab as they were, a completion of an unlinked-projects fetch
\* leaves projects and the current tab as they were, the two completions
\* give the same state in either order, and once both mount-time fetches
\* have resolved the state holds both responses.
C7_Independent ==
  /\ [][/\ Did("resolveUnlinked")' =>
             /\ state' = [state EXCEPT !.unlinkedProjects = state'.unlinkedProjects]
             /\ linkedReq' = linkedReq
        /\ (Did("resolveLinked")' \/ Did("rejectLinked")') =>
             /\ state'.unlinkedProjects = state.unlinkedProjects
             /\ state'.currentTab = state.currentTab
             /\ inflight' = inflight /\ requests' = requests]_vars
  /\ [](\A id \in inflight :
          setUnlinkedProjects(setEndpointData(state, LinkedData),
                              ServerSearch(requests[id]))
            = setEndpointData(setUnlinkedProjects(state, ServerSearch(requests[id])),
                              LinkedData))
  /\ [](/\ Len(requests) = 1 /\ inflight = {} /\ linkedReq = "resolved"
        /\ (Did("resolveLinked") \/ Did("resolveUnlinked"))
        /\ state.unlinkedProjects # <<>>
        => /\ state.projects = LinkedData
           /\ state.unlinkedProjects = ServerSearch(requests[1]))

\* C7 witness: both mount-time fetches resolved, the linked one last, and
\* the two lists differ
C7_Witness ==
  /\ Did("resolveLinked")
  /\ Len(requests) = 1 /\ inflight = {}
  /\ state.unlinkedProjects = ServerSearch(requests[1])
  /\ state.projects = LinkedData
  /\ state.projects # <<>>
  /\ state.unlinkedProjects # state.projects

\* C8: a new fetchUnlinkedProjects call aborts no earlier one (a call leaves
\* the calls in flight only by its own response), and every resolved
\* response overwrites unlinkedProjects, whether or not a later call has been
\* made.
C8_LastWriteWins ==
  [][/\ \A id \in inflight :
          id \in inflight' \/ (lastOp'.arg = id /\
                               (Did("resolveUnlinked")' \/ Did("rejectUnlinked")'))
     /\ Did("resolveUnlinked")' =>
          state'.unlinkedProjects = ServerSearch(requests[lastOp'.arg])]_vars

\* C8 witness: called with filter A, then with filter B; A's response came
\* last and its list is shown, though B is the latest call and nothing is
\* in flight
C8_Witness ==
  /\ Len(requests) = 3 /\ inflight = {}
  /\ Did("resolveUnlinked") /\ lastOp.arg = 2
  /\ state.unlinkedProjects = ServerSearch(requests[2])
  /\ state.unlinkedProjects # ServerSearch(requests[3])
  /\ requests[2] # requests[1] /\ requests[3] # requests[1]

\* C9: for a team that exists, from mount until the linked-projects request
\* resolves, render() shows the loading indicator and no tab content.
C9_LinkedFetchGates ==
  lifecycle = "mounted" /\ linkedReq = "pending" /\ props.team # NoTeam =>
    /\ Rendered.kind = "LoadingIndicator"
    /\ "tabContent" \notin DOMAIN Rendered

\* C10: once mounted, and after every click on a tab link, the current tab
\* is the tab getCurrentTab gives for the current pathname.
C10_TabFollowsPath ==
  lifecycle = "mounted" => state.currentTab = getCurrentTab(props.pathname)

====
